---------------------------- MODULE Spec2Model ----------------------------
(***************************************************************************)
(* Model of javaspectre-core:                                              *)
(*   - ExcavationSafetyProfile  (src/src/excavation_safety_profile.rs)     *)
(*   - RuntimePolicyRegistry, RuntimeIntrospectionSeal, SecureArContext    *)
(*                              (src/src/biospectre/secure_ar_context.rs)  *)
(*   - SqliteVirtualObjectKernel, apply_excavation_update                  *)
(*                              (src/crates/virtual-object-atlas/src/lib.rs)*)
(*                                                                         *)
(* The three components share no state in the source, so each has its own  *)
(* specification (SpecGate, SpecRegistry, SpecSeal, SpecAtlas) over the    *)
(* variables below; a specification leaves the other components' variables *)
(* at their initial value.                                                 *)
(***************************************************************************)
EXTENDS Integers, Sequences, FiniteSets, TLC

VARIABLES
    text,           \* the text a caller keeps and passes to redact_text
    profile,        \* the ExcavationSafetyProfile in use
    policies,       \* RuntimePolicyRegistry.policies : HashMap<String, RuntimePolicy>
    set_log,        \* every set_policy call so far: <<domain, policy>>, in call order
    seal_policy,    \* RuntimeIntrospectionSeal.policy
    safety_mode,    \* SecureArContext.citizen_profile.safety_mode
    audit,          \* every AuditEvent handed to audit_fn, in call order
    kernel_profile, \* SqliteVirtualObjectKernel.graph_safety_profile
    inserted,       \* <<object id, version>> of every record insert_snapshot
                    \* returned Ok, in call order
    metrics,        \* object id of every record record_excavation_metrics
                    \* returned Ok for, in call order
    last            \* the last call: its name, arguments and return value

vars == <<text, profile, policies, set_log, seal_policy, safety_mode, audit,
          kernel_profile, inserted, metrics, last>>

NoCall == [op |-> "none"]

(***************************************************************************)
(* Floating point.  f32/f64 values are carried as hundredths (0.85 is 85); *)
(* the decimal literals of the source and of the inputs are at least 0.01  *)
(* apart, far more than the rounding of either width, so the comparison of *)
(* the hundredths is the comparison of the floats.  NaN is a value every   *)
(* comparison of which is false, as in IEEE 754.                           *)
(***************************************************************************)
NaN == [nan |-> TRUE, h |-> 0]

F(x) == [nan |-> FALSE, h |-> x]

\* a >= b on floats
FGe(a, b) == ~a.nan /\ ~b.nan /\ a.h >= b.h

\* a <= b on floats
FLe(a, b) == ~a.nan /\ ~b.nan /\ a.h <= b.h

\* a > b on floats
FGt(a, b) == ~a.nan /\ ~b.nan /\ a.h > b.h

\* a - b on floats.  The difference of the hundredths is the f32 difference
\* only where the f32 subtraction does not round across a compared literal:
\* the operands offered (DeepScores) are quarters, whose differences are
\* exact, or lie at least 0.05 from the 0.25 margin.
FSub(a, b) == IF a.nan \/ b.nan THEN NaN ELSE F(a.h - b.h)

(***************************************************************************)
(* ExcavationSafetyProfile                                                 *)
(***************************************************************************)

\* ExcavationSafetyProfile::new: durations in milliseconds.
DefaultProfile ==
    [ node_budget                 |-> 20000,
      trace_span_budget           |-> 50000,
      deep_pass_budget            |-> 2000,
      max_run_duration            |-> 15000,
      min_confidence_for_auto_use |-> F(85),
      min_confidence_for_display  |-> F(40),
      max_drift_for_auto_use      |-> F(20),
      max_drift_for_citizen_ui    |-> F(60) ]

\* The fields are pub: a deployment may set any of them after new().
Profiles ==
    { DefaultProfile,
      \* display thresholds stricter than the auto-use ones
      [DefaultProfile EXCEPT !.min_confidence_for_display = F(90),
                             !.max_drift_for_citizen_ui = F(10)],
      \* loose auto-use drift, tiny budgets
      [DefaultProfile EXCEPT !.max_drift_for_auto_use = F(70),
                             !.node_budget = 0,
                             !.trace_span_budget = 1,
                             !.deep_pass_budget = 0,
                             !.max_run_duration = 0],
      \* every object is at least displayable
      [DefaultProfile EXCEPT !.min_confidence_for_auto_use = F(50),
                             !.min_confidence_for_display = F(0),
                             !.max_drift_for_citizen_ui = F(100)] }

ClassifyObjectSwapped(p, confidence, drift) ==
    IF FGe(confidence, p.min_confidence_for_display)
       /\ FLe(drift, p.max_drift_for_citizen_ui)
    THEN "show-with-warning"
    ELSE IF FGe(confidence, p.min_confidence_for_auto_use)
            /\ FLe(drift, p.max_drift_for_auto_use)
    THEN "auto-use"
    ELSE "quarantine"

\* classify_object
ClassifyObject(p, confidence, drift) ==
    IF FGe(confidence, p.min_confidence_for_auto_use)
       /\ FLe(drift, p.max_drift_for_auto_use)
    THEN "auto-use"
    ELSE IF FGe(confidence, p.min_confidence_for_display)
            /\ FLe(drift, p.max_drift_for_citizen_ui)
    THEN "show-with-warning"
    ELSE "quarantine"

ShouldEnterDeepPassStrict(p, estimated_value_score, cost_score) ==
    IF p.deep_pass_budget = 0
    THEN FALSE
    ELSE FGt(FSub(estimated_value_score, cost_score), F(25))

\* should_enter_deep_pass
ShouldEnterDeepPass(p, estimated_value_score, cost_score) ==
    IF p.deep_pass_budget = 0
    THEN FALSE
    ELSE LET decision_score == FSub(estimated_value_score, cost_score)
         IN  FGe(decision_score, F(25))

\* Result<T, E>, Option<T> and the unit value ().
Ok(v) == [ok |-> TRUE, val |-> v]

Err(e) == [ok |-> FALSE, err |-> e]

Some(v) == [some |-> TRUE, val |-> v]

None == [some |-> FALSE]

Unit == <<>>

EnforceBudgetsFirstOnly(p, nodes, spans, deep_candidates, run_duration) ==
    IF nodes > p.node_budget THEN Err(<<"nodeBudget">>)
    ELSE IF spans > p.trace_span_budget THEN Err(<<"traceSpanBudget">>)
    ELSE IF deep_candidates > p.deep_pass_budget THEN Err(<<"deepPassBudget">>)
    ELSE IF run_duration > p.max_run_duration THEN Err(<<"maxRunSeconds">>)
    ELSE Ok(Unit)

\* enforce_budgets: the four pushes in source order, then the is_empty test.
EnforceBudgets(p, nodes, spans, deep_candidates, run_duration) ==
    LET v1 == IF nodes > p.node_budget THEN <<"nodeBudget">> ELSE <<>>
        v2 == IF spans > p.trace_span_budget
              THEN Append(v1, "traceSpanBudget") ELSE v1
        v3 == IF deep_candidates > p.deep_pass_budget
              THEN Append(v2, "deepPassBudget") ELSE v2
        violations == IF run_duration > p.max_run_duration
                      THEN Append(v3, "maxRunSeconds") ELSE v3
    IN  IF violations = <<>> THEN Ok(Unit) ELSE Err(violations)

\* check_stats
CheckStats(p, stats) ==
    EnforceBudgets(p, stats.nodes, stats.spans, stats.deep_candidates,
                   stats.run_duration)

\* Confidence and drift scores offered to classify_object.
Scores ==
    {F(x) : x \in {0, 10, 20, 21, 30, 39, 40, 50, 60, 61, 70, 84, 85, 90, 100}}
    \cup {NaN}

\* Counts and durations offered to enforce_budgets: around each budget.
Counts(budget) == {0, budget, budget + 1}

\* Value and cost scores offered to should_enter_deep_pass.
DeepScores ==
    {F(x) : x \in {0, 25, 40, 50, 60, 70, 75, 80, 90, 100}} \cup {NaN}

ShouldEnterDeepPassCall ==
    \E value_score \in DeepScores, cost_score \in DeepScores :
        /\ last' = [op |-> "should_enter_deep_pass",
                    value_score |-> value_score, cost_score |-> cost_score,
                    ret |-> ShouldEnterDeepPass(profile, value_score,
                                                cost_score)]
        /\ UNCHANGED <<text, profile, policies, set_log, seal_policy, safety_mode, audit,
                       kernel_profile, inserted, metrics>>

ClassifyObjectCall ==
    \E confidence \in Scores, drift \in Scores :
        /\ last' = [op |-> "classify_object",
                    confidence |-> confidence, drift |-> drift,
                    ret |-> ClassifyObject(profile, confidence, drift)]
        /\ UNCHANGED <<text, profile, policies, set_log, seal_policy, safety_mode, audit,
                       kernel_profile, inserted, metrics>>

EnforceBudgetsCall ==
    \E nodes \in Counts(profile.node_budget),
       spans \in Counts(profile.trace_span_budget),
       deep_candidates \in Counts(profile.deep_pass_budget),
       run_duration \in Counts(profile.max_run_duration) :
        /\ last' = [op |-> "enforce_budgets",
                    nodes |-> nodes, spans |-> spans,
                    deep_candidates |-> deep_candidates,
                    run_duration |-> run_duration,
                    ret |-> EnforceBudgets(profile, nodes, spans,
                                           deep_candidates, run_duration)]
        /\ UNCHANGED <<text, profile, policies, set_log, seal_policy, safety_mode, audit,
                       kernel_profile, inserted, metrics>>

CheckStatsCall ==
    \E nodes \in Counts(profile.node_budget),
       spans \in Counts(profile.trace_span_budget),
       deep_candidates \in Counts(profile.deep_pass_budget),
       run_duration \in Counts(profile.max_run_duration) :
        /\ last' = [op |-> "check_stats",
                    nodes |-> nodes, spans |-> spans,
                    deep_candidates |-> deep_candidates,
                    run_duration |-> run_duration,
                    ret |-> CheckStats(profile,
                                [nodes |-> nodes, spans |-> spans,
                                 deep_candidates |-> deep_candidates,
                                 run_duration |-> run_duration])]
        /\ UNCHANGED <<text, profile, policies, set_log, seal_policy, safety_mode, audit,
                       kernel_profile, inserted, metrics>>

(***************************************************************************)
(* Redaction: redact_text and the three redact_patterns built by new().    *)
(* A text is a sequence of one-character strings; positions count from 1.  *)
(***************************************************************************)

Digits ==
    { "0", "1", "2", "3", "4", "5", "6", "7", "8", "9" }

Letters ==
    { "a", "b", "c", "d", "e", "f", "g", "h", "i", "j", "k", "l", "m",
      "n", "o", "p", "q", "r", "s", "t", "u", "v", "w", "x", "y", "z",
      "A", "B", "C", "D", "E", "F", "G", "H", "I", "J", "K", "L", "M",
      "N", "O", "P", "Q", "R", "S", "T", "U", "V", "W", "X", "Y", "Z" }

\* \w of the regex crate on ASCII text: what \b looks at
WordChars == Letters \cup Digits \cup {"_"}

\* [A-Za-z0-9._%+-], the class before the @
LocalChars == Letters \cup Digits \cup {".", "_", "%", "+", "-"}

\* [A-Za-z0-9.-], the class after the @
DomainChars == Letters \cup Digits \cup {".", "-"}

\* the replacement "[REDACTED]"
Marker == <<"[", "R", "E", "D", "A", "C", "T", "E", "D", "]">>

\* \b at the position before t[i] (i = Len(t) + 1: at the end of t): exactly
\* one of the two neighbours is a word character
WordBoundary(t, i) ==
    LET before == i > 1 /\ t[i - 1] \in WordChars
        after  == i <= Len(t) /\ t[i] \in WordChars
    IN  before # after

AllIn(t, a, b, S) == \A k \in a..b : t[k] \in S

\* the position after the longest run of characters of S that starts at i
RECURSIVE RunEnd(_, _, _)
RunEnd(t, i, S) ==
    IF i > Len(t) \/ t[i] \notin S THEN i ELSE RunEnd(t, i + 1, S)

\* \b[0-9]{3}-[0-9]{2}-[0-9]{4}\b at position i: the position after the
\* match, 0 when there is none
MatchSsn(t, i) ==
    IF /\ i + 10 <= Len(t)
       /\ WordBoundary(t, i)
       /\ AllIn(t, i, i + 2, Digits) /\ t[i + 3] = "-"
       /\ AllIn(t, i + 4, i + 5, Digits) /\ t[i + 6] = "-"
       /\ AllIn(t, i + 7, i + 10, Digits)
       /\ WordBoundary(t, i + 11)
    THEN i + 11 ELSE 0

\* \b[0-9]{16}\b at position i
MatchCard(t, i) ==
    IF /\ i + 15 <= Len(t)
       /\ WordBoundary(t, i)
       /\ AllIn(t, i, i + 15, Digits)
       /\ WordBoundary(t, i + 16)
    THEN i + 16 ELSE 0

\* (?i)\b[A-Za-z0-9._%+-]+@[A-Za-z0-9.-]+\.[A-Z]{2,}\b at position i.  The
\* local part is the whole run up to the @ (an @ is not in its class).  The
\* greedy domain gives up characters until what is left ends before a "."
\* that a run of two or more letters follows, ending at a word boundary:
\* the last such "." of the run of domain characters, with at least one
\* character before it.
MatchEmail(t, i) ==
    LET at == RunEnd(t, i, LocalChars) IN
    IF ~WordBoundary(t, i) \/ at = i \/ at > Len(t) \/ t[at] # "@"
    THEN 0
    ELSE LET domain_end == RunEnd(t, at + 1, DomainChars)
             dots == {k \in (at + 2)..(domain_end - 1) :
                         /\ t[k] = "."
                         /\ RunEnd(t, k + 1, Letters) >= k + 3
                         /\ WordBoundary(t, RunEnd(t, k + 1, Letters))}
         IN  IF dots = {} THEN 0
             ELSE LET dot == CHOOSE k \in dots : \A j \in dots : j <= k
                  IN  RunEnd(t, dot + 1, Letters)

\* redact_patterns, in the order new() builds them
RedactPatterns == <<"ssn", "card", "email">>

MatchEnd(pattern, t, i) ==
    CASE pattern = "ssn"   -> MatchSsn(t, i)
      [] pattern = "card"  -> MatchCard(t, i)
      [] pattern = "email" -> MatchEmail(t, i)

\* Regex::replace_all from position i on: the leftmost match is replaced and
\* the search goes on after it, a character no match starts at is copied
RECURSIVE ReplaceFrom(_, _, _)
ReplaceFrom(pattern, t, i) ==
    IF i > Len(t) THEN <<>>
    ELSE LET e == MatchEnd(pattern, t, i) IN
         IF e # 0 THEN Marker \o ReplaceFrom(pattern, t, e)
         ELSE <<t[i]>> \o ReplaceFrom(pattern, t, i + 1)

ReplaceFirst(pattern, t) ==
    LET starts == {i \in 1..Len(t) : MatchEnd(pattern, t, i) # 0} IN
    IF starts = {} THEN t
    ELSE LET i == CHOOSE k \in starts : \A j \in starts : k <= j
         IN  SubSeq(t, 1, i - 1) \o Marker
                 \o SubSeq(t, MatchEnd(pattern, t, i), Len(t))

ReplaceAll(pattern, t) == ReplaceFrom(pattern, t, 1)

\* the loop of redact_text over the patterns
RECURSIVE RedactWith(_, _)
RedactWith(patterns, sanitized) ==
    IF patterns = <<>> THEN sanitized
    ELSE RedactWith(Tail(patterns), ReplaceAll(Head(patterns), sanitized))

\* redact_text
RedactText(t) == RedactWith(RedactPatterns, t)

\* Inputs: texts put together from up to MaxPieces pieces: one match of
\* each pattern, the marker, and single characters that join, split or
\* unbound a match.
SsnSample == <<"1", "2", "3", "-", "4", "5", "-", "6", "7", "8", "9">>

CardSample == <<"4", "1", "1", "1", "1", "1", "1", "1", "1", "1", "1", "1", "1", "1", "1", "1">>

EmailSample == <<"a", "@", "b", ".", "c", "c">>

Pieces ==
    { SsnSample, CardSample, EmailSample, Marker,
      <<"1">>, <<"x">>, <<"-">>, <<".">>, <<"@">>, <<" ">>, <<"_">> }

MaxPieces == 3

RECURSIVE TextsOf(_)
TextsOf(n) ==
    IF n = 0 THEN {<<>>}
    ELSE LET shorter == TextsOf(n - 1)
         IN  shorter \cup {s \o p : s \in shorter, p \in Pieces}

Texts == TextsOf(MaxPieces)

\* The caller sanitizes its text: text = redact_text(text).  again: the text
\* passed is itself the result of the previous call.
RedactTextCall ==
    /\ text' = RedactText(text)
    /\ last' = [op |-> "redact_text", text |-> text, ret |-> text',
                again |-> last.op = "redact_text"]
    /\ UNCHANGED <<profile, policies, set_log, seal_policy, safety_mode,
                   audit, kernel_profile, inserted, metrics>>

(***************************************************************************)
(* RuntimePolicy and RuntimePolicyRegistry                                 *)
(***************************************************************************)

\* impl Default for RuntimePolicy
RuntimePolicyDefault ==
    [ domain                           |-> "unknown",
      allow_telemetry                  |-> FALSE,
      allow_cross_origin_introspection |-> FALSE,
      allowed_sdks                     |-> <<>>,
      citizen_mode                     |-> "Private" ]

\* RuntimePolicyRegistry::default(): the empty HashMap.
EmptyRegistry == <<>>

\* set_policy: HashMap::insert replaces the entry under the key `domain`;
\* the key is the argument, not policy.domain.
SetPolicy(reg, domain, policy) ==
    [d \in (DOMAIN reg) \cup {domain} |->
        IF d = domain THEN policy ELSE reg[d]]

PolicyForFallbackUnknown(reg, domain) ==
    IF domain \in DOMAIN reg THEN reg[domain] ELSE RuntimePolicyDefault

\* policy_for
PolicyFor(reg, domain) ==
    IF domain \in DOMAIN reg
    THEN reg[domain]
    ELSE [RuntimePolicyDefault EXCEPT !.domain = domain]

Domains == {"a.example", "b.example", "unknown"}

SdkLists == {<<>>, <<"datadog">>, <<"datadog", "sentry">>}

\* Policies a caller registers; policy.domain need not be the key.
RegisteredPolicies ==
    { [domain |-> "a.example", allow_telemetry |-> TRUE,
       allow_cross_origin_introspection |-> FALSE,
       allowed_sdks |-> <<"datadog">>, citizen_mode |-> "Public"],
      [domain |-> "a.example", allow_telemetry |-> FALSE,
       allow_cross_origin_introspection |-> TRUE,
       allowed_sdks |-> <<>>, citizen_mode |-> "Research"],
      [domain |-> "b.example", allow_telemetry |-> TRUE,
       allow_cross_origin_introspection |-> TRUE,
       allowed_sdks |-> <<"datadog", "sentry">>, citizen_mode |-> "Private"],
      [domain |-> "b.example", allow_telemetry |-> FALSE,
       allow_cross_origin_introspection |-> FALSE,
       allowed_sdks |-> <<>>, citizen_mode |-> "Private"] }

\* Number of set_policy calls in a run.
MaxSetPolicy == 3

SetPolicyCall ==
    \E domain \in Domains, policy \in RegisteredPolicies :
        /\ Len(set_log) < MaxSetPolicy
        /\ policies' = SetPolicy(policies, domain, policy)
        /\ set_log' = Append(set_log, <<domain, policy>>)
        /\ last' = [op |-> "set_policy", domain |-> domain, policy |-> policy,
                    before |-> policies]
        /\ UNCHANGED <<text, profile, seal_policy, safety_mode, audit,
                       kernel_profile, inserted, metrics>>

PolicyForCall ==
    \E domain \in Domains :
        /\ last' = [op |-> "policy_for", domain |-> domain,
                    ret |-> PolicyFor(policies, domain)]
        /\ UNCHANGED <<text, profile, policies, set_log, seal_policy, safety_mode, audit,
                       kernel_profile, inserted, metrics>>

(***************************************************************************)
(* RuntimeIntrospectionSeal and SecureArContext.  An operation is an       *)
(* operator from the object's state and the arguments to the return value  *)
(* and the AuditEvents handed to audit_fn, in order.  An AuditEvent is its *)
(* kind and details; its timestamp (SystemTime::now()) is not carried.     *)
(***************************************************************************)

Outcome(ret, emit) == [ret |-> ret, emit |-> emit]

\* Vec<String>::iter().any(|s| s == x)
AnyEq(list, x) == \E i \in 1..Len(list) : list[i] = x

GuardCrossOriginSilent(policy, operation, source, target) ==
    IF ~policy.allow_cross_origin_introspection
    THEN Outcome(Err("Cross-origin introspection blocked by policy"), <<>>)
    ELSE Outcome(Ok(Unit), <<>>)

\* guard_cross_origin
GuardCrossOrigin(policy, operation, source, target) ==
    IF ~policy.allow_cross_origin_introspection
    THEN Outcome(Err("Cross-origin introspection blocked by policy"),
                 << [kind    |-> "cross-origin-block",
                     details |-> [operation     |-> operation,
                                  source_origin |-> source,
                                  target_origin |-> target]] >>)
    ELSE Outcome(Ok(Unit), <<>>)

GuardTelemetryAuditsMiss(policy, sdk_name, action) ==
    IF ~(policy.allow_telemetry /\ AnyEq(policy.allowed_sdks, sdk_name))
    THEN Outcome(FALSE,
                 << [kind    |-> "telemetry-block",
                     details |-> [sdk |-> sdk_name, action |-> action]] >>)
    ELSE Outcome(TRUE, <<>>)

\* guard_telemetry
GuardTelemetry(policy, sdk_name, action) ==
    IF ~policy.allow_telemetry
    THEN Outcome(FALSE,
                 << [kind    |-> "telemetry-block",
                     details |-> [sdk |-> sdk_name, action |-> action]] >>)
    ELSE Outcome(AnyEq(policy.allowed_sdks, sdk_name), <<>>)

\* CitizenXRProfile::mode_label
ModeLabel(mode) ==
    CASE mode = "Public"   -> "CITIZEN_MODE_PUBLIC"
      [] mode = "Private"  -> "CITIZEN_MODE_PRIVATE"
      [] mode = "Research" -> "CITIZEN_MODE_RESEARCH"

CreateArObjectPolicyMode(ctx, id, owner, vtype, policy_tags) ==
    IF ctx.policy.citizen_mode = "Public"
       /\ ~(\E i \in 1..Len(policy_tags) :
               policy_tags[i] = "safety:noninvasive"
               \/ policy_tags[i] = "privacy:local-only")
    THEN Outcome(Err("Citizen mode PUBLIC requires noninvasive/local-only policy tags"),
                 <<>>)
    ELSE Outcome(Ok([id |-> id, owner |-> owner, vtype |-> vtype,
                     policy_tags |-> policy_tags, ledger_anchor |-> None]),
                 << [kind    |-> "ar-object-created",
                     details |-> [id |-> id, owner |-> owner,
                                  mode |-> ModeLabel(ctx.safety_mode)]] >>)

\* create_ar_object.  ctx.safety_mode is citizen_profile.safety_mode; the
\* object's geometry and created_at are passed through and not carried.
CreateArObject(ctx, id, owner, vtype, policy_tags) ==
    IF ctx.safety_mode = "Public"
       /\ ~(\E i \in 1..Len(policy_tags) :
               policy_tags[i] = "safety:noninvasive"
               \/ policy_tags[i] = "privacy:local-only")
    THEN Outcome(Err("Citizen mode PUBLIC requires noninvasive/local-only policy tags"),
                 <<>>)
    ELSE Outcome(Ok([id |-> id, owner |-> owner, vtype |-> vtype,
                     policy_tags |-> policy_tags, ledger_anchor |-> None]),
                 << [kind    |-> "ar-object-created",
                     details |-> [id |-> id, owner |-> owner,
                                  mode |-> ModeLabel(ctx.safety_mode)]] >>)

\* SecureArContext::new: the policy is resolved from the registry once, and
\* the seal gets a clone of it.
NewContext(reg, domain, mode) ==
    [policy |-> PolicyFor(reg, domain), safety_mode |-> mode]

SafetyModes == {"Public", "Private", "Research"}

\* The context as the operations read it.
Ctx == [policy |-> seal_policy, safety_mode |-> safety_mode]

Operations == {"read-top-window", "postMessage"}

Origins == {"https://a.example", "https://b.example"}

SdkNames == {"datadog", "sentry", "Datadog"}

TelemetryActions == {"init", "flush"}

ObjectIds == {"did:aln:1", "did:aln:2"}

Owners == {"bostrom18"}

VTypes == {"Portal"}

TagLists ==
    { <<>>,
      <<"safety:noninvasive">>,
      <<"privacy:local-only">>,
      <<"ads:tracking">>,
      <<"ads:tracking", "privacy:local-only">>,
      <<"Safety:NonInvasive">> }

\* Number of AuditEvents a run hands to audit_fn.
MaxAudit == 2

GuardCrossOriginCall ==
    \E operation \in Operations, source \in Origins, target \in Origins :
        LET r == GuardCrossOrigin(seal_policy, operation, source, target) IN
        /\ Len(audit) + Len(r.emit) <= MaxAudit
        /\ audit' = audit \o r.emit
        /\ last' = [op |-> "guard_cross_origin", operation |-> operation,
                    source |-> source, target |-> target,
                    ret |-> r.ret, audit_before |-> Len(audit)]
        /\ UNCHANGED <<text, profile, policies, set_log, seal_policy, safety_mode,
                       kernel_profile, inserted, metrics>>

GuardTelemetryCall ==
    \E sdk_name \in SdkNames, action \in TelemetryActions :
        LET r == GuardTelemetry(seal_policy, sdk_name, action) IN
        /\ Len(audit) + Len(r.emit) <= MaxAudit
        /\ audit' = audit \o r.emit
        /\ last' = [op |-> "guard_telemetry", sdk_name |-> sdk_name,
                    action |-> action,
                    ret |-> r.ret, audit_before |-> Len(audit)]
        /\ UNCHANGED <<text, profile, policies, set_log, seal_policy, safety_mode,
                       kernel_profile, inserted, metrics>>

CreateArObjectCall ==
    \E id \in ObjectIds, owner \in Owners, vtype \in VTypes,
       policy_tags \in TagLists :
        LET r == CreateArObject(Ctx, id, owner, vtype, policy_tags) IN
        /\ Len(audit) + Len(r.emit) <= MaxAudit
        /\ audit' = audit \o r.emit
        /\ last' = [op |-> "create_ar_object", id |-> id, owner |-> owner,
                    vtype |-> vtype, policy_tags |-> policy_tags,
                    ret |-> r.ret, audit_before |-> Len(audit)]
        /\ UNCHANGED <<text, profile, policies, set_log, seal_policy, safety_mode,
                       kernel_profile, inserted, metrics>>

(***************************************************************************)
(* SqliteVirtualObjectKernel and apply_excavation_update.  The record ids  *)
(* (Uuid::new_v4()) are not carried; SystemTime::now() is the argument     *)
(* `now`.  Of GraphSafetyProfile the code reads max_drift_for_auto_use     *)
(* alone.                                                                  *)
(***************************************************************************)

\* upsert_virtual_object
UpsertVirtualObject(descriptor) == Ok(Unit)

InsertSnapshotStrict(kp, obj_id, version, snapshot_json, topo, stability, drift, now) ==
    Ok([ virtual_object_id |-> obj_id,
         version           |-> version,
         captured_at       |-> now,
         snapshot_json     |-> snapshot_json,
         topology          |-> topo,
         stability         |-> stability,
         drift             |-> drift,
         auto_use_allowed  |-> FGt(kp.max_drift_for_auto_use, drift.drift_score) ])

\* insert_snapshot
InsertSnapshot(kp, obj_id, version, snapshot_json, topo, stability, drift, now) ==
    Ok([ virtual_object_id |-> obj_id,
         version           |-> version,
         captured_at       |-> now,
         snapshot_json     |-> snapshot_json,
         topology          |-> topo,
         stability         |-> stability,
         drift             |-> drift,
         auto_use_allowed  |-> FLe(drift.drift_score, kp.max_drift_for_auto_use) ])

\* latest_snapshot
LatestSnapshot(obj_id) == Ok(None)

\* record_excavation_metrics
RecordExcavationMetrics(obj_id, m) == Ok(Unit)

\* A kernel K of the generic pass: the SQLite kernel with its profile, and
\* the set of trait methods whose call returns an error (a store failure).
\* The SQLite kernel as written never fails: failing = {}.
KernelMethods ==
    {"upsert_virtual_object", "insert_snapshot", "record_excavation_metrics"}

Kernel(kp, failing) == [profile |-> kp, failing |-> failing]

SqliteKernel(kp) == Kernel(kp, {})

\* the opaque anyhow error a failing trait method returns
KernelError(method) == Err(<<"store failure", method>>)

KernelUpsertVirtualObject(k, descriptor) ==
    IF "upsert_virtual_object" \in k.failing
    THEN KernelError("upsert_virtual_object")
    ELSE UpsertVirtualObject(descriptor)

KernelInsertSnapshot(k, obj_id, version, snapshot_json, topo, stability, drift, now) ==
    IF "insert_snapshot" \in k.failing
    THEN KernelError("insert_snapshot")
    ELSE InsertSnapshot(k.profile, obj_id, version, snapshot_json, topo,
                        stability, drift, now)

KernelRecordExcavationMetrics(k, obj_id, m) ==
    IF "record_excavation_metrics" \in k.failing
    THEN KernelError("record_excavation_metrics")
    ELSE RecordExcavationMetrics(obj_id, m)

ApplyExcavationUpdateMetricsFirst(k, descriptor, snapshot_json, topo, stability, drift, now) ==
    LET obj_id  == descriptor.id
        up      == KernelUpsertVirtualObject(k, descriptor)
        version == descriptor.stability.revision_count + 1
        m       == [ virtual_object_id |-> obj_id,
                     captured_at       |-> now,
                     stability         |-> stability,
                     drift             |-> drift,
                     notes             |-> None ]
        rec     == KernelRecordExcavationMetrics(k, obj_id, m)
        snap    == KernelInsertSnapshot(k, obj_id, version, snapshot_json,
                                        topo, stability, drift, now)
    IN  IF ~up.ok
        THEN [ret |-> up, snaps |-> <<>>, mets |-> <<>>,
              calls |-> <<"upsert_virtual_object">>]
        ELSE IF ~rec.ok
        THEN [ret |-> rec, snaps |-> <<>>, mets |-> <<>>,
              calls |-> <<"upsert_virtual_object",
                          "record_excavation_metrics">>]
        ELSE IF ~snap.ok
        THEN [ret |-> snap, snaps |-> <<>>, mets |-> <<m>>,
              calls |-> <<"upsert_virtual_object",
                          "record_excavation_metrics", "insert_snapshot">>]
        ELSE [ret |-> Ok([object |-> descriptor, snapshot |-> snap.val,
                          metrics_record |-> m]),
              snaps |-> <<snap.val>>, mets |-> <<m>>,
              calls |-> <<"upsert_virtual_object",
                          "record_excavation_metrics", "insert_snapshot">>]

\* apply_excavation_update over a kernel k: each `?` returns the step's
\* error and skips the rest.  calls: the kernel methods called, in order;
\* snaps, mets: the records the kernel accepted.  revision_count is a u64;
\* the counts offered (RevisionCounts) stay far below 2^64 - 1, where the
\* + 1 would overflow.
ApplyExcavationUpdate(k, descriptor, snapshot_json, topo, stability, drift, now) ==
    LET obj_id  == descriptor.id
        up      == KernelUpsertVirtualObject(k, descriptor)
        version == descriptor.stability.revision_count + 1
        snap    == KernelInsertSnapshot(k, obj_id, version, snapshot_json,
                                        topo, stability, drift, now)
        m       == [ virtual_object_id |-> obj_id,
                     captured_at       |-> snap.val.captured_at,
                     stability         |-> stability,
                     drift             |-> drift,
                     notes             |-> None ]
        rec     == KernelRecordExcavationMetrics(k, obj_id, m)
    IN  IF ~up.ok
        THEN [ret |-> up, snaps |-> <<>>, mets |-> <<>>,
              calls |-> <<"upsert_virtual_object">>]
        ELSE IF ~snap.ok
        THEN [ret |-> snap, snaps |-> <<>>, mets |-> <<>>,
              calls |-> <<"upsert_virtual_object", "insert_snapshot">>]
        ELSE IF ~rec.ok
        THEN [ret |-> rec, snaps |-> <<snap.val>>, mets |-> <<>>,
              calls |-> <<"upsert_virtual_object", "insert_snapshot",
                          "record_excavation_metrics">>]
        ELSE [ret |-> Ok([object |-> descriptor, snapshot |-> snap.val,
                          metrics_record |-> m]),
              snaps |-> <<snap.val>>, mets |-> <<m>>,
              calls |-> <<"upsert_virtual_object", "insert_snapshot",
                          "record_excavation_metrics">>]

KernelProfiles ==
    { [max_drift_for_auto_use |-> F(20)], [max_drift_for_auto_use |-> F(50)] }

AtlasObjects == {"obj-A", "obj-B"}

Versions == {1, 2, 3}

RevisionCounts == {0, 1, 2}

Times == {1, 2}

Payloads == {"{}"}

Topologies == {None}

\* The metrics the diff engine supplies for a pass: <<stability, drift>>.
\* The drift scores are the kernel profiles' threshold 0.20 itself and 0.35.
PassMetrics ==
    { << [stability |-> F(90), novelty |-> F(10), revision_count |-> 0],
         [drift_score |-> F(20), structural_delta |-> F(10),
          semantic_delta |-> F(5), note |-> None] >>,
      << [stability |-> F(40), novelty |-> F(70), revision_count |-> 7],
         [drift_score |-> F(35), structural_delta |-> F(50),
          semantic_delta |-> F(30), note |-> Some("migrated")] >> }

\* The governance requirement each object carries.
GovernanceOf(o) == IF o = "obj-A" THEN "None" ELSE "RequiresMultisig"

\* VirtualObjectDescriptor: the fields the kernel and the excavation hook
\* read (id, governance, stability, drift).
Descriptors ==
    { [ id         |-> o,
        governance |-> GovernanceOf(o),
        stability  |-> [stability |-> F(90), novelty |-> F(10),
                        revision_count |-> rc],
        drift      |-> [drift_score |-> F(35), structural_delta |-> F(0),
                        semantic_delta |-> F(0), note |-> None] ] :
      o \in AtlasObjects, rc \in RevisionCounts }

\* Number of snapshots a run inserts.
MaxSnapshots == 2

\* The key of a snapshot record in the history.
SnapshotKey(rec) == <<rec.virtual_object_id, rec.version>>

UpsertVirtualObjectCall ==
    \E descriptor \in Descriptors :
        /\ last' = [op |-> "upsert_virtual_object", descriptor |-> descriptor,
                    ret |-> UpsertVirtualObject(descriptor)]
        /\ UNCHANGED <<text, profile, policies, set_log, seal_policy, safety_mode,
                       audit, kernel_profile, inserted, metrics>>

InsertSnapshotCall ==
    \E obj_id \in AtlasObjects, version \in Versions,
       snapshot_json \in Payloads, topo \in Topologies,
       pm \in PassMetrics, now \in Times :
        LET r == InsertSnapshot(kernel_profile, obj_id, version, snapshot_json,
                                topo, pm[1], pm[2], now) IN
        /\ Len(inserted) < MaxSnapshots
        /\ inserted' = IF r.ok THEN Append(inserted, SnapshotKey(r.val))
                                ELSE inserted
        /\ last' = [op |-> "insert_snapshot", obj_id |-> obj_id,
                    version |-> version, stability |-> pm[1],
                    drift |-> pm[2], ret |-> r]
        /\ UNCHANGED <<text, profile, policies, set_log, seal_policy, safety_mode,
                       audit, kernel_profile, metrics>>

LatestSnapshotCall ==
    \E obj_id \in AtlasObjects :
        /\ last' = [op |-> "latest_snapshot", obj_id |-> obj_id,
                    ret |-> LatestSnapshot(obj_id)]
        /\ UNCHANGED <<text, profile, policies, set_log, seal_policy, safety_mode,
                       audit, kernel_profile, inserted, metrics>>

ApplyExcavationUpdateCall ==
    \E descriptor \in Descriptors, snapshot_json \in Payloads,
       topo \in Topologies, pm \in PassMetrics, now \in Times :
        LET r == ApplyExcavationUpdate(SqliteKernel(kernel_profile),
                                       descriptor, snapshot_json, topo,
                                       pm[1], pm[2], now) IN
        /\ Len(inserted) < MaxSnapshots
        /\ inserted' = inserted \o [i \in 1..Len(r.snaps) |->
                                       SnapshotKey(r.snaps[i])]
        /\ metrics' = metrics \o [i \in 1..Len(r.mets) |->
                                     r.mets[i].virtual_object_id]
        /\ last' = [op |-> "apply_excavation_update",
                    descriptor |-> descriptor, ret |-> r.ret,
                    calls |-> r.calls]
        /\ UNCHANGED <<text, profile, policies, set_log, seal_policy, safety_mode,
                       audit, kernel_profile>>

\* A direct call of record_excavation_metrics on the SQLite kernel: the
\* method is public and asks for no snapshot of the object.
RecordExcavationMetricsCall ==
    \E obj_id \in AtlasObjects, pm \in PassMetrics, now \in Times :
        LET m == [ virtual_object_id |-> obj_id,
                   captured_at       |-> now,
                   stability         |-> pm[1],
                   drift             |-> pm[2],
                   notes             |-> None ]
            r == RecordExcavationMetrics(obj_id, m) IN
        /\ Len(metrics) < MaxSnapshots
        /\ metrics' = IF r.ok THEN Append(metrics, obj_id) ELSE metrics
        /\ last' = [op |-> "record_excavation_metrics", obj_id |-> obj_id,
                    ret |-> r]
        /\ UNCHANGED <<text, profile, policies, set_log, seal_policy,
                       safety_mode, audit, kernel_profile, inserted>>

\* The passes and direct calls over failing kernels are about the order of
\* the steps, not the version: first revisions only.
FirstDescriptors == {d \in Descriptors : d.stability.revision_count = 0}

FirstVersions == {v \in Versions : v = 1}

\* Direct calls of insert_snapshot and record_excavation_metrics on a kernel
\* on which the method fails or not.
KernelInsertSnapshotCall ==
    \E obj_id \in AtlasObjects, version \in FirstVersions,
       snapshot_json \in Payloads, topo \in Topologies,
       pm \in PassMetrics, now \in Times,
       failing \in SUBSET {"insert_snapshot"} :
        LET r == KernelInsertSnapshot(Kernel(kernel_profile, failing), obj_id,
                                      version, snapshot_json, topo, pm[1],
                                      pm[2], now) IN
        /\ Len(inserted) < MaxSnapshots
        /\ inserted' = IF r.ok THEN Append(inserted, SnapshotKey(r.val))
                                ELSE inserted
        /\ last' = [op |-> "insert_snapshot", obj_id |-> obj_id,
                    version |-> version, failing |-> failing, ret |-> r]
        /\ UNCHANGED <<text, profile, policies, set_log, seal_policy,
                       safety_mode, audit, kernel_profile, metrics>>

KernelRecordExcavationMetricsCall ==
    \E obj_id \in AtlasObjects, pm \in PassMetrics, now \in Times,
       failing \in SUBSET {"record_excavation_metrics"} :
        LET m == [ virtual_object_id |-> obj_id,
                   captured_at       |-> now,
                   stability         |-> pm[1],
                   drift             |-> pm[2],
                   notes             |-> None ]
            r == KernelRecordExcavationMetrics(Kernel(kernel_profile, failing),
                                               obj_id, m) IN
        /\ Len(metrics) < MaxSnapshots
        /\ metrics' = IF r.ok THEN Append(metrics, obj_id) ELSE metrics
        /\ last' = [op |-> "record_excavation_metrics", obj_id |-> obj_id,
                    failing |-> failing, ret |-> r]
        /\ UNCHANGED <<text, profile, policies, set_log, seal_policy,
                       safety_mode, audit, kernel_profile, inserted>>

\* A pass over a kernel some of whose methods fail (any subset, the empty
\* one included).
ExcavationPassCall ==
    \E descriptor \in FirstDescriptors, snapshot_json \in Payloads,
       topo \in Topologies, pm \in PassMetrics, now \in Times,
       failing \in SUBSET KernelMethods :
        LET r == ApplyExcavationUpdate(Kernel(kernel_profile, failing),
                                       descriptor, snapshot_json, topo,
                                       pm[1], pm[2], now) IN
        /\ Len(inserted) < MaxSnapshots
        /\ Len(metrics) < MaxSnapshots
        /\ inserted' = inserted \o [i \in 1..Len(r.snaps) |->
                                       SnapshotKey(r.snaps[i])]
        /\ metrics' = metrics \o [i \in 1..Len(r.mets) |->
                                     r.mets[i].virtual_object_id]
        /\ last' = [op |-> "excavation_pass", descriptor |-> descriptor,
                    stability |-> pm[1], drift |-> pm[2], now |-> now,
                    failing |-> failing, ret |-> r.ret, calls |-> r.calls,
                    snaps |-> [i \in 1..Len(r.snaps) |->
                                  r.snaps[i].virtual_object_id],
                    mets |-> [i \in 1..Len(r.mets) |->
                                 r.mets[i].virtual_object_id]]
        /\ UNCHANGED <<text, profile, policies, set_log, seal_policy, safety_mode,
                       audit, kernel_profile>>

(***************************************************************************)
(* Auto-use decisions: the kernel's may_auto_use and atlas_auto_use_gate.  *)
(* CargoEnvDescriptor::is_bci_safety_qualified() and HostBudget belong to  *)
(* other crates: the gate reads the former as a boolean and the latter's   *)
(* two f64 fields.                                                         *)
(***************************************************************************)

\* may_auto_use
MayAutoUse(kp, obj) ==
    CASE obj.governance = "None" -> TRUE
      [] obj.governance \in {"RequiresGovernance", "RequiresMultisig"} ->
            FLe(obj.drift.drift_score, kp.max_drift_for_auto_use)

\* atlas_auto_use_gate
AtlasAutoUseGate(env_qualified, host, obj) ==
    IF ~env_qualified THEN FALSE
    ELSE IF FLe(host.remaining_energy_joules, F(0)) THEN FALSE
    ELSE IF FLe(host.remaining_protein_grams, F(0)) THEN FALSE
    ELSE CASE obj.governance = "None" -> TRUE
           [] obj.governance \in {"RequiresGovernance", "RequiresMultisig"} ->
                 FLe(obj.drift.drift_score, F(30))

Governances == {"None", "RequiresGovernance", "RequiresMultisig"}

\* Remaining amounts of a host resource: -1.0, 0.0, 1.0 and NaN.
Amounts == {F(0 - 100), F(0), F(100), NaN}

HostBudgets ==
    [remaining_energy_joules : Amounts, remaining_protein_grams : Amounts]

\* Drift scores around the fixed 0.30 and the kernel profiles' 0.20 and 0.50.
GateDrifts == {F(20), F(30), F(31), F(35), F(90), NaN}

\* The descriptors offered to the auto-use decisions.
GateDescriptors ==
    { [ id         |-> "obj-A",
        governance |-> g,
        stability  |-> [stability |-> F(90), novelty |-> F(10),
                        revision_count |-> 0],
        drift      |-> [drift_score |-> d, structural_delta |-> F(0),
                        semantic_delta |-> F(0), note |-> None] ] :
      g \in Governances, d \in GateDrifts }

MayAutoUseCall ==
    \E obj \in GateDescriptors :
        /\ last' = [op |-> "may_auto_use", obj |-> obj,
                    ret |-> MayAutoUse(kernel_profile, obj)]
        /\ UNCHANGED <<text, profile, policies, set_log, seal_policy, safety_mode,
                       audit, kernel_profile, inserted, metrics>>

AtlasAutoUseGateCall ==
    \E env_qualified \in BOOLEAN, host \in HostBudgets,
       obj \in GateDescriptors :
        /\ last' = [op |-> "atlas_auto_use_gate",
                    env_qualified |-> env_qualified, host |-> host,
                    obj |-> obj,
                    ret |-> AtlasAutoUseGate(env_qualified, host, obj)]
        /\ UNCHANGED <<text, profile, policies, set_log, seal_policy, safety_mode,
                       audit, kernel_profile, inserted, metrics>>

(***************************************************************************)
(* Specifications                                                          *)
(***************************************************************************)

GateIdle == profile = DefaultProfile /\ text = <<>>

RegistryIdle == policies = EmptyRegistry /\ set_log = <<>>

SealIdle ==
    /\ seal_policy = RuntimePolicyDefault
    /\ safety_mode = "Private"
    /\ audit = <<>>

AtlasIdle ==
    /\ kernel_profile = [max_drift_for_auto_use |-> F(20)]
    /\ inserted = <<>>
    /\ metrics = <<>>

\* A profile is constructed and then only read.
InitGate ==
    /\ profile \in Profiles
    /\ text = <<>>
    /\ RegistryIdle /\ SealIdle /\ AtlasIdle
    /\ last = NoCall

NextGate ==
    \/ ClassifyObjectCall
    \/ EnforceBudgetsCall
    \/ CheckStatsCall
    \/ ShouldEnterDeepPassCall

SpecGate == InitGate /\ [][NextGate]_vars

\* RuntimePolicyRegistry::default()
InitRegistry ==
    /\ policies = EmptyRegistry
    /\ set_log = <<>>
    /\ GateIdle /\ SealIdle /\ AtlasIdle
    /\ last = NoCall

NextRegistry == SetPolicyCall \/ PolicyForCall

SpecRegistry == InitRegistry /\ [][NextRegistry]_vars

\* Registries a context is built from: empty, or one policy under one key.
SeedRegistries ==
    {EmptyRegistry}
    \cup {SetPolicy(EmptyRegistry, d, p) :
            d \in {"a.example"},
            p \in [domain : {"a.example"},
                   allow_telemetry : BOOLEAN,
                   allow_cross_origin_introspection : BOOLEAN,
                   allowed_sdks : SdkLists,
                   citizen_mode : {"Public"}]}

\* SecureArContext::new(domain, .., policy_registry, citizen_profile, audit_fn)
\* with an audit_fn that has been handed nothing yet.
InitSeal ==
    /\ \E reg \in SeedRegistries, mode \in SafetyModes :
          LET c == NewContext(reg, "a.example", mode) IN
          /\ seal_policy = c.policy
          /\ safety_mode = c.safety_mode
    /\ audit = <<>>
    /\ GateIdle /\ RegistryIdle /\ AtlasIdle
    /\ last = NoCall

NextSeal == GuardCrossOriginCall \/ GuardTelemetryCall \/ CreateArObjectCall

SpecSeal == InitSeal /\ [][NextSeal]_vars

\* SqliteVirtualObjectKernel::new(db_path, profile)
InitAtlas ==
    /\ kernel_profile \in KernelProfiles
    /\ inserted = <<>>
    /\ metrics = <<>>
    /\ GateIdle /\ RegistryIdle /\ SealIdle
    /\ last = NoCall

NextAtlas ==
    \/ UpsertVirtualObjectCall
    \/ InsertSnapshotCall
    \/ LatestSnapshotCall
    \/ RecordExcavationMetricsCall
    \/ ApplyExcavationUpdateCall

SpecAtlas == InitAtlas /\ [][NextAtlas]_vars

\* A kernel is constructed with its profile; the decisions only read.
InitGovernance ==
    /\ kernel_profile \in KernelProfiles
    /\ inserted = <<>>
    /\ metrics = <<>>
    /\ GateIdle /\ RegistryIdle /\ SealIdle
    /\ last = NoCall

NextGovernance == MayAutoUseCall \/ AtlasAutoUseGateCall

SpecGovernance == InitGovernance /\ [][NextGovernance]_vars

\* A caller holds some text and sanitizes it, any number of times.
InitRedact ==
    /\ text \in Texts
    /\ profile = DefaultProfile
    /\ RegistryIdle /\ SealIdle /\ AtlasIdle
    /\ last = NoCall

NextRedact == RedactTextCall

SpecRedact == InitRedact /\ [][NextRedact]_vars

\* Passes and direct calls over kernels whose methods may fail.
InitExcavation ==
    /\ kernel_profile \in KernelProfiles
    /\ inserted = <<>>
    /\ metrics = <<>>
    /\ GateIdle /\ RegistryIdle /\ SealIdle
    /\ last = NoCall

NextExcavation ==
    \/ ExcavationPassCall
    \/ KernelInsertSnapshotCall
    \/ KernelRecordExcavationMetricsCall

SpecExcavation == InitExcavation /\ [][NextExcavation]_vars

(***************************************************************************)
(* Properties                                                              *)
(***************************************************************************)

Range(seq) == {seq[i] : i \in 1..Len(seq)}

\* The AuditEvents the last call handed to audit_fn.
Emitted == SubSeq(audit, last.audit_before + 1, Len(audit))

\* The versions recorded for object o in the history log, in call order.
RECURSIVE VersionsIn(_, _)
VersionsIn(log, o) ==
    IF log = <<>> THEN <<>>
    ELSE IF Head(log)[1] = o
         THEN <<Head(log)[2]>> \o VersionsIn(Tail(log), o)
         ELSE VersionsIn(Tail(log), o)

\* The highest version recorded for o in the log, 0 when there is none.
HighestIn(log, o) ==
    LET vs == Range(VersionsIn(log, o)) IN
    IF vs = {} THEN 0 ELSE CHOOSE v \in vs : \A w \in vs : w <= v

\* C1: insert_snapshot accepts a version only when it is 1 + the object's
\* latest recorded version, so the versions recorded for an object are, in
\* the order they were accepted, exactly 1, 2, .., n (no gap, no duplicate).
C1_VersionsContiguous ==
    \A o \in AtlasObjects :
        LET vs == VersionsIn(inserted, o) IN
        \A i \in 1..Len(vs) : vs[i] = i

\* C2: a pass of apply_excavation_update gives its snapshot the version
\* 1 + (highest version recorded for the object before the pass, or 0),
\* whatever revision_count the descriptor carries.
C2_PassVersionIsNext ==
    (last.op = "apply_excavation_update" /\ last.ret.ok) =>
        last.ret.val.snapshot.version =
            1 + HighestIn(SubSeq(inserted, 1, Len(inserted) - 1),
                          last.descriptor.id)

\* C3: latest_snapshot returns the record with the highest version inserted
\* for the object, and None only when none was ever inserted for it.
C3_LatestIsHighest ==
    last.op = "latest_snapshot" =>
        /\ last.ret.ok
        /\ last.ret.val.some <=> VersionsIn(inserted, last.obj_id) # <<>>
        /\ last.ret.val.some =>
              last.ret.val.val.version = HighestIn(inserted, last.obj_id)

\* C4: no policy denial is silent: a guard_cross_origin that returns the
\* Blocked error, a guard_telemetry that returns false and a create_ar_object
\* that is rejected each hand at least one AuditEvent to the audit handler.
C4_NoSilentDenial ==
    /\ (last.op = "guard_cross_origin" /\ ~last.ret.ok) => Len(Emitted) >= 1
    /\ (last.op = "guard_telemetry" /\ ~last.ret) => Len(Emitted) >= 1
    /\ (last.op = "create_ar_object" /\ ~last.ret.ok) => Len(Emitted) >= 1

\* C5: guard_telemetry returns true iff the policy allows telemetry and the
\* SDK is in the allow-list; it emits exactly one telemetry-block event with
\* the sdk and action when the policy disallows telemetry, and no event in
\* every other case (an allow-list miss included).
C5_GuardTelemetry ==
    last.op = "guard_telemetry" =>
        /\ last.ret <=> (seal_policy.allow_telemetry
                         /\ last.sdk_name \in Range(seal_policy.allowed_sdks))
        /\ ~seal_policy.allow_telemetry =>
              Emitted = << [kind    |-> "telemetry-block",
                            details |-> [sdk    |-> last.sdk_name,
                                         action |-> last.action]] >>
        /\ seal_policy.allow_telemetry => Emitted = <<>>

\* An allow-list miss: telemetry allowed, the SDK not listed, false returned
\* and nothing emitted.
C5_Witness ==
    /\ last.op = "guard_telemetry"
    /\ seal_policy.allow_telemetry
    /\ seal_policy.allowed_sdks # <<>>
    /\ ~last.ret
    /\ Emitted = <<>>
    /\ audit # <<>>

\* C6: guard_cross_origin returns the Blocked error iff the policy has
\* allow_cross_origin_introspection = false; on denial it emits exactly one
\* cross-origin-block event carrying the call's operation, source and
\* target; when allowed it returns Ok and emits nothing.
C6_GuardCrossOrigin ==
    last.op = "guard_cross_origin" =>
        /\ ~last.ret.ok <=> ~seal_policy.allow_cross_origin_introspection
        /\ ~last.ret.ok =>
              Emitted = << [kind    |-> "cross-origin-block",
                            details |-> [operation     |-> last.operation,
                                         source_origin |-> last.source,
                                         target_origin |-> last.target]] >>
        /\ last.ret.ok => Emitted = <<>>

\* A denied call whose source and target differ, after an earlier event.
C6_Witness ==
    /\ last.op = "guard_cross_origin"
    /\ ~last.ret.ok
    /\ last.source # last.target
    /\ last.audit_before = 1
    /\ Len(audit) = 2

\* The policy of the latest set_policy call under `domain`, if any.
LastRegistered(domain) ==
    LET hits == {i \in 1..Len(set_log) : set_log[i][1] = domain} IN
    IF hits = {} THEN None
    ELSE Some(set_log[CHOOSE i \in hits : \A j \in hits : j <= i][2])

\* What C7 requires of the policy returned for `domain`.
C7_Expected(domain, ret) ==
    LET reg == LastRegistered(domain) IN
    IF reg.some
    THEN ret = reg.val
    ELSE /\ ret.domain = domain
         /\ ret.allow_telemetry = FALSE
         /\ ret.allow_cross_origin_introspection = FALSE
         /\ ret.allowed_sdks = <<>>

\* C7: policy_for(domain) returns the policy most recently registered under
\* the domain, and for a domain never registered a deny-by-default policy
\* named after the request; a set_policy for one domain changes the result
\* for no other domain.
C7_PolicyFor ==
    /\ \A d \in Domains : C7_Expected(d, PolicyFor(policies, d))
    /\ last.op = "policy_for" => C7_Expected(last.domain, last.ret)
    /\ last.op = "set_policy" =>
          \A d \in Domains \ {last.domain} :
              PolicyFor(policies, d) = PolicyFor(last.before, d)

\* policy_for on a domain registered twice with different policies, another
\* domain being registered and a third not.
C7_Witness ==
    /\ last.op = "policy_for"
    /\ Len(set_log) = 3
    /\ set_log[1][1] = last.domain
    /\ set_log[3][1] = last.domain
    /\ set_log[2][1] # last.domain
    /\ set_log[1][2] # set_log[3][2]
    /\ last.ret = set_log[3][2]
    /\ last.ret.domain # last.domain

\* The fixed safe set of create_ar_object.
SafeTags == {"safety:noninvasive", "privacy:local-only"}

\* C8: create_ar_object in Public mode returns an error unless the tags hold
\* a tag of the safe set; in every other case it returns the object and
\* emits exactly one ar-object-created event; a rejection emits none.
C8_CreateArObject ==
    last.op = "create_ar_object" =>
        LET rejected == /\ safety_mode = "Public"
                        /\ Range(last.policy_tags) \cap SafeTags = {}
        IN  IF rejected
            THEN /\ ~last.ret.ok
                 /\ \A i \in 1..Len(Emitted) :
                       Emitted[i].kind # "ar-object-created"
            ELSE /\ last.ret.ok
                 /\ last.ret.val.id = last.id
                 /\ last.ret.val.owner = last.owner
                 /\ last.ret.val.policy_tags = last.policy_tags
                 /\ Len(Emitted) = 1
                 /\ Emitted[1].kind = "ar-object-created"

\* Public mode, a safe tag beside an unsafe one: the object is returned.
C8_Witness ==
    /\ last.op = "create_ar_object"
    /\ safety_mode = "Public"
    /\ Len(last.policy_tags) = 2
    /\ last.ret.ok
    /\ Len(Emitted) = 1

\* The two threshold tests of C9, on the last classify_object call.
C9_AutoUse ==
    /\ FGe(last.confidence, profile.min_confidence_for_auto_use)
    /\ FLe(last.drift, profile.max_drift_for_auto_use)

C9_Display ==
    /\ FGe(last.confidence, profile.min_confidence_for_display)
    /\ FLe(last.drift, profile.max_drift_for_citizen_ui)

\* C9: classify_object returns exactly one of the three labels: auto-use iff
\* the auto-use test passes, otherwise show-with-warning iff the display
\* test passes, otherwise quarantine; with the default thresholds
\* (0.90, 0.10) is auto-use, (0.50, 0.50) show-with-warning and
\* (0.10, 0.90) quarantine.
C9_Classify ==
    last.op = "classify_object" =>
        /\ last.ret \in {"auto-use", "show-with-warning", "quarantine"}
        /\ last.ret = "auto-use" <=> C9_AutoUse
        /\ last.ret = "show-with-warning" <=> (~C9_AutoUse /\ C9_Display)
        /\ last.ret = "quarantine" <=> (~C9_AutoUse /\ ~C9_Display)
        /\ profile = DefaultProfile =>
              /\ (last.confidence = F(90) /\ last.drift = F(10))
                    => last.ret = "auto-use"
              /\ (last.confidence = F(50) /\ last.drift = F(50))
                    => last.ret = "show-with-warning"
              /\ (last.confidence = F(10) /\ last.drift = F(90))
                    => last.ret = "quarantine"

\* Both tests pass and the first decides.
C9_Witness ==
    /\ last.op = "classify_object"
    /\ C9_AutoUse
    /\ C9_Display
    /\ last.ret = "auto-use"

\* C10: enforce_budgets lists a budget's name iff that observed quantity is
\* strictly greater than the budget, each of the four independently, and
\* returns Ok iff all four are within their limits.
C10_EnforceBudgets ==
    last.op = "enforce_budgets" =>
        LET names == IF last.ret.ok THEN {} ELSE Range(last.ret.err) IN
        /\ "nodeBudget" \in names <=> last.nodes > profile.node_budget
        /\ "traceSpanBudget" \in names <=> last.spans > profile.trace_span_budget
        /\ "deepPassBudget" \in names
              <=> last.deep_candidates > profile.deep_pass_budget
        /\ "maxRunSeconds" \in names
              <=> last.run_duration > profile.max_run_duration
        /\ names \subseteq {"nodeBudget", "traceSpanBudget", "deepPassBudget",
                            "maxRunSeconds"}
        /\ ~last.ret.ok => Len(last.ret.err) = Cardinality(names)
        /\ last.ret.ok <=> /\ last.nodes <= profile.node_budget
                           /\ last.spans <= profile.trace_span_budget
                           /\ last.deep_candidates <= profile.deep_pass_budget
                           /\ last.run_duration <= profile.max_run_duration

\* The first and the last budget are breached, the two between are not.
C10_Witness ==
    /\ last.op = "enforce_budgets"
    /\ last.nodes > profile.node_budget
    /\ last.spans = profile.trace_span_budget
    /\ last.deep_candidates <= profile.deep_pass_budget
    /\ last.run_duration > profile.max_run_duration
    /\ ~last.ret.ok
    /\ last.ret.err = <<"nodeBudget", "maxRunSeconds">>

\* The f32 test value_score - cost_score >= 0.25 on the last call.
C11_Margin == FGe(FSub(last.value_score, last.cost_score), F(25))

\* C11 as stated: should_enter_deep_pass returns true iff
\* value_score - cost_score >= 0.25, for every profile.
C11_Original ==
    last.op = "should_enter_deep_pass" => (last.ret <=> C11_Margin)

\* C11 as amended: should_enter_deep_pass returns true iff the profile's
\* deep_pass_budget is not 0 and value_score - cost_score >= 0.25 (0.25
\* itself admits); no other field of the profile is read.
C11_DeepPass ==
    last.op = "should_enter_deep_pass" =>
        (last.ret <=> (profile.deep_pass_budget # 0 /\ C11_Margin))

\* A difference of exactly 0.25 admitted under a non-zero budget.
C11_Witness ==
    /\ last.op = "should_enter_deep_pass"
    /\ profile.deep_pass_budget # 0
    /\ last.value_score = F(75)
    /\ last.cost_score = F(50)
    /\ last.ret

\* C12: atlas_auto_use_gate returns true iff the environment is qualified
\* and both host resource fields are strictly positive and (the governance
\* is None or the drift score is <= 0.30).
C12_GateIff ==
    last.op = "atlas_auto_use_gate" =>
        (last.ret <=>
            /\ last.env_qualified
            /\ FGt(last.host.remaining_energy_joules, F(0))
            /\ FGt(last.host.remaining_protein_grams, F(0))
            /\ \/ last.obj.governance = "None"
               \/ FLe(last.obj.drift.drift_score, F(30)))

\* The other governed tier.
OtherTier(g) ==
    IF g = "RequiresGovernance" THEN "RequiresMultisig" ELSE "RequiresGovernance"

\* C13: for an object that is RequiresGovernance or RequiresMultisig and
\* whose drift score is above 0.30, neither atlas_auto_use_gate nor the
\* kernel's may_auto_use returns true, whatever the profile's
\* max_drift_for_auto_use; and the two governed tiers get the same answer.
C13_HardBackstop ==
    (last.op \in {"atlas_auto_use_gate", "may_auto_use"}
     /\ last.obj.governance # "None") =>
        /\ FGt(last.obj.drift.drift_score, F(30)) => ~last.ret
        /\ LET twin == [last.obj EXCEPT !.governance = OtherTier(@)] IN
           last.ret = IF last.op = "may_auto_use"
                      THEN MayAutoUse(kernel_profile, twin)
                      ELSE AtlasAutoUseGate(last.env_qualified, last.host, twin)


\* C15: the record insert_snapshot returns has auto_use_allowed = TRUE iff
\* the drift score of the call is <= the kernel profile's
\* max_drift_for_auto_use (the boundary allows), whatever the version,
\* stability, topology and payload; and it carries the object id, version,
\* stability and drift of the call unchanged.  The snapshot of a pass is
\* such a record.
C15_InsertSnapshot ==
    /\ last.op = "insert_snapshot" =>
          /\ last.ret.ok
          /\ last.ret.val.auto_use_allowed <=>
                FLe(last.drift.drift_score,
                    kernel_profile.max_drift_for_auto_use)
          /\ last.ret.val.virtual_object_id = last.obj_id
          /\ last.ret.val.version = last.version
          /\ last.ret.val.stability = last.stability
          /\ last.ret.val.drift = last.drift
    /\ (last.op = "apply_excavation_update" /\ last.ret.ok) =>
          last.ret.val.snapshot.auto_use_allowed <=>
              FLe(last.ret.val.snapshot.drift.drift_score,
                  kernel_profile.max_drift_for_auto_use)

\* an insert at the boundary: drift 0.20 under a profile of 0.20 is allowed
C15_Witness ==
    /\ last.op = "insert_snapshot"
    /\ kernel_profile.max_drift_for_auto_use = F(20)
    /\ last.drift.drift_score = F(20)
    /\ last.ret.ok /\ last.ret.val.auto_use_allowed

PassOrder ==
    <<"upsert_virtual_object", "insert_snapshot", "record_excavation_metrics">>

\* the steps of PassOrder that fail on the kernel of the last pass
FailingSteps == {i \in 1..Len(PassOrder) : PassOrder[i] \in last.failing}

FirstFailing == CHOOSE i \in FailingSteps : \A j \in FailingSteps : i <= j

\* a pass adds at most one metrics record, and only after the snapshot of
\* the same object that it added itself: the passes never bring the metrics
\* records of an object above its snapshots
C16_MetricsBounded ==
    last.op = "excavation_pass" =>
        /\ Len(last.mets) <= 1 /\ Len(last.snaps) <= 1
        /\ \A o \in AtlasObjects :
               Cardinality({i \in DOMAIN last.mets : last.mets[i] = o}) <=
                   Cardinality({i \in DOMAIN last.snaps : last.snaps[i] = o})
        /\ Len(last.snaps) = 1 <=> "insert_snapshot" \in Range(last.calls)
                                      /\ "insert_snapshot" \notin last.failing
        /\ Len(last.mets) = 1 <=> last.ret.ok

\* a pass calls upsert_virtual_object, insert_snapshot,
\* record_excavation_metrics in that order, each at most once; the first
\* step that fails ends the pass with that step's error, unchanged; on
\* success the metrics record has the object id, capture time, stability
\* and drift of the snapshot of the pass
C16_PassSteps ==
    last.op = "excavation_pass" =>
        IF FailingSteps = {}
        THEN /\ last.calls = PassOrder
             /\ last.ret.ok
             /\ last.ret.val.object = last.descriptor
             /\ last.ret.val.metrics_record.virtual_object_id =
                    last.ret.val.snapshot.virtual_object_id
             /\ last.ret.val.metrics_record.captured_at =
                    last.ret.val.snapshot.captured_at
             /\ last.ret.val.metrics_record.stability =
                    last.ret.val.snapshot.stability
             /\ last.ret.val.metrics_record.drift =
                    last.ret.val.snapshot.drift
             /\ last.ret.val.snapshot.virtual_object_id = last.descriptor.id
             /\ last.ret.val.snapshot.stability = last.stability
             /\ last.ret.val.snapshot.drift = last.drift
        ELSE /\ last.calls = SubSeq(PassOrder, 1, FirstFailing)
             /\ last.ret = KernelError(PassOrder[FirstFailing])

C14_Idempotent ==
    last.op = "redact_text" =>
        /\ last.again => last.ret = last.text
        /\ \A n \in DOMAIN RedactPatterns, i \in 1..Len(last.ret) :
               MatchEnd(RedactPatterns[n], last.ret, i) = 0

\* two matches were replaced, and the result was redacted once more
C14_Witness ==
    /\ last.op = "redact_text" /\ last.again
    /\ last.text = Marker \o <<" ">> \o Marker
    /\ last.ret = last.text

=========================================================================
